---- MODULE Spec2Model ----
(***************************************************************************)
(* A model of check_mi.py: the directory scan, the pool of worker          *)
(* processes fed by task_queue, the collector loop of main() reading       *)
(* out_queue with a timeout, and the probes of check_file.                 *)
(*                                                                         *)
(* Text (file names, extensions) is a sequence of one-character strings.   *)
(* A Python tuple is a TLA+ tuple, so is_success[1][2] reads               *)
(* is_success[2][3] here (TLA+ counts from 1).                             *)
(***************************************************************************)
EXTENDS Integers, Sequences, FiniteSets, TLC

(***************************************************************************)
(* Bounds of the model.                                                    *)
(***************************************************************************)
MaxThreads == 2     \* largest CONFIG.threads explored
MaxTasks == 2       \* largest number of directories holding an image in the tree
MaxTimeout == 1     \* largest CONFIG.timeout explored, in clock ticks
MaxClock == 1       \* largest reading of time.time() after the start
MaxCalls == 3       \* calls of print_log made on one TimedLogger
MaxLen == 3         \* longest content of a file handed to check_file, in bytes
MaxZero == 3        \* largest CONFIG.zero_detect handed to check_file
MaxName == 4        \* longest file name the scan is examined on, in characters

(***************************************************************************)
(* Python values that have no TLA+ counterpart.                            *)
(***************************************************************************)
NA == -1            \* file_size = 'NA': the size is not known
None == <<>>        \* the error field of a good outcome
NoByte == -1        \* prev = None / maxprev = None in check_zeros

(***************************************************************************)
(* Extension lists, lines 40-47.                                           *)
(***************************************************************************)
PIL_EXTENSIONS ==
  {
    <<"j","p","g">>, <<"j","p","e","g">>, <<"j","p","e">>, <<"p","n","g">>,
    <<"b","m","p">>, <<"g","i","f">>, <<"p","c","d">>, <<"t","i","f">>,
    <<"t","i","f","f">>, <<"j","2","k">>, <<"j","2","p">>, <<"j","2","x">>,
    <<"w","e","b","p">>
  }

PIL_EXTRA_EXTENSIONS ==
  {
    <<"e","p","s">>, <<"i","c","o">>, <<"i","m">>, <<"p","c","x">>, <<"p","p","m">>,
    <<"s","g","i">>, <<"s","p","i","d","e","r">>, <<"x","b","m">>, <<"t","g","a">>
  }

MAGICK_EXTENSIONS ==
  {
    <<"p","s","d">>, <<"x","c","f">>
  }

VIDEO_EXTENSIONS ==
  {
    <<"a","v","i">>, <<"m","p","4">>, <<"m","o","v">>, <<"m","p","e","g">>,
    <<"m","p","g">>, <<"m","2","p">>, <<"m","k","v">>, <<"3","g","p">>, <<"o","g","g">>,
    <<"f","l","v">>, <<"f","4","v">>, <<"f","4","p">>, <<"f","4","a">>, <<"f","4","b">>
  }

AUDIO_EXTENSIONS ==
  {
    <<"m","p","3">>, <<"m","p","2">>
  }

(***************************************************************************)
(* setup(configuration), lines 115-130.  The function extends the global   *)
(* PIL_EXTENSIONS in place and fills MEDIA_EXTENSIONS; both are read       *)
(* afterwards only, so each is a function of the configuration.            *)
(***************************************************************************)
SetupPilExtensions(cfg) ==
  IF ~cfg.is_disable_extra
    THEN PIL_EXTENSIONS \cup PIL_EXTRA_EXTENSIONS
    ELSE PIL_EXTENSIONS

MEDIA_EXTENSIONS(cfg) ==
  LET enable_extra == ~cfg.is_disable_extra
      enable_images == ~cfg.is_disable_image
      enable_media == cfg.is_enable_media
      images == IF enable_images
                  THEN SetupPilExtensions(cfg)
                         \cup (IF enable_extra THEN MAGICK_EXTENSIONS ELSE {})
                  ELSE {}
      media == IF enable_media
                 THEN VIDEO_EXTENSIONS \cup AUDIO_EXTENSIONS
                 ELSE {}
  IN  images \cup media

(***************************************************************************)
(* str.lower(), os.path.splitext() and os.path.join() on text.             *)
(***************************************************************************)
\* F(e), with e evaluated once
Bind(e, F(_)) == CHOOSE r \in {F(x) : x \in {e}} : TRUE

UpperCase ==
  <<"A","B","C","D","E","F","G","H","I","J","K","L","M",
    "N","O","P","Q","R","S","T","U","V","W","X","Y","Z">>

LowerCase ==
  <<"a","b","c","d","e","f","g","h","i","j","k","l","m",
    "n","o","p","q","r","s","t","u","v","w","x","y","z">>

LowerChar(c) ==
  IF \E i \in DOMAIN UpperCase : UpperCase[i] = c
    THEN LowerCase[CHOOSE i \in DOMAIN UpperCase : UpperCase[i] = c]
    ELSE c

lower(s) == [i \in DOMAIN s |-> LowerChar(s[i])]

\* str.rfind(c): the last index of c in s, 0 when there is none
\* (Python's -1, one-based).
rfind(s, c) ==
  IF \E i \in DOMAIN s : s[i] = c
    THEN CHOOSE i \in DOMAIN s : s[i] = c /\ \A k \in DOMAIN s : s[k] = c => k <= i
    ELSE 0

\* posixpath.splitext: the extension starts at the last dot of the last
\* path component; dots that lead the component do not start one.
splitext(p) ==
  LET sepIndex == rfind(p, "/")
      dotIndex == rfind(p, ".")
  IN  IF dotIndex > sepIndex
           /\ \E k \in (sepIndex + 1)..(dotIndex - 1) : p[k] # "."
        THEN <<SubSeq(p, 1, dotIndex - 1), SubSeq(p, dotIndex, Len(p))>>
        ELSE <<p, <<>>>>

\* line 398: os.path.join(root, filename) for a bare file name
join(root, filename) == root \o <<"/">> \o filename

\* line 212 (and line 292): os.path.splitext(file_lowercase)[1][1:]
ExtensionOf(file_lowercase) ==
  LET ext == splitext(file_lowercase)[2]
  IN  SubSeq(ext, 2, Len(ext))

\* A faulty get_extension: the name is not lowered first.
get_extension_cased(filename) == ExtensionOf(filename)

\* lines 210-212
get_extension(filename) == Bind(lower(filename), ExtensionOf)

\* lines 215-217
is_target_file(filename, cfg) ==
  get_extension(filename) \in MEDIA_EXTENSIONS(cfg)

(***************************************************************************)
(* The file behind a path, as the probes find it at the time of the check: *)
(*   exists     os.stat() and open() succeed                               *)
(*   bytes      the content, a sequence of byte values                     *)
(*   pil        pil_check() returns without raising                        *)
(*   magick     magick_check() returns without raising                     *)
(*   identify   magick_identify_check() returns without raising            *)
(*   ffmpeg     ffmpeg_check() returns without raising                     *)
(* A probe returns [raised |-> FALSE, value |-> v] or raises, which is     *)
(* [raised |-> TRUE, msg |-> m]; m is the text str(e) renders, kept as the *)
(* tuple of the exception's arguments.                                     *)
(***************************************************************************)
Return(v) == [raised |-> FALSE, value |-> v]
Raise(m) == [raised |-> TRUE, msg |-> m]

\* A faulty check_size: an empty file is not an error (zero_exception False).
check_size_zero_ok(f) ==
  IF ~f.exists
    THEN Raise(<<"No such file or directory">>)
    ELSE Return(Len(f.bytes))

\* lines 202-207, zero_exception left at its default True
check_size(f) ==
  IF ~f.exists
    THEN Raise(<<"No such file or directory">>)
    ELSE LET filesize == Len(f.bytes)
         IN  IF filesize = 0
               THEN Raise(<<"Zero size file">>)
               ELSE Return(filesize)

\* lines 184-192: the loop body of check_zeros for the byte i
ZerosStep(st, i) ==
  IF st.prev = i
    THEN [st EXCEPT !.num = st.num + 1]
    ELSE LET st1 == IF st.num > st.maxnum
                      THEN [st EXCEPT !.maxnum = st.num, !.maxprev = st.prev]
                      ELSE st
         IN  [st1 EXCEPT !.num = 1, !.prev = i]

RECURSIVE ZerosLoop(_, _)
ZerosLoop(st, bytes) ==
  IF bytes = <<>>
    THEN st
    ELSE Bind(ZerosStep(st, Head(bytes)), LAMBDA st1 : ZerosLoop(st1, Tail(bytes)))

\* lines 176-199 with a threshold given (length_seq_threshold is not None)
check_zeros(f, length_seq_threshold) ==
  IF ~f.exists
    THEN Raise(<<"No such file or directory">>)
    ELSE LET st0 == [num |-> 1, maxnum |-> 1, prev |-> NoByte, maxprev |-> NoByte]
             st1 == ZerosLoop(st0, f.bytes)
             maxnum == IF st1.num > st1.maxnum THEN st1.num ELSE st1.maxnum
             maxprev == st1.maxprev
         IN  IF maxnum >= length_seq_threshold
               THEN Raise(<<"Equal value sequence, value:", maxprev, "len:", maxnum>>)
               ELSE Return(maxnum)

\* lines 133-146, 149-163, 166-173, 220-231: the decoders are outside this
\* program; each either returns or raises.
pil_check(f) ==
  IF f.pil THEN Return(TRUE) ELSE Raise(<<"cannot identify image file">>)

magick_check(f) ==
  IF f.magick THEN Return(TRUE) ELSE Raise(<<"corrupt image">>)

magick_identify_check(f) ==
  IF f.identify THEN Return(TRUE) ELSE Raise(<<"Identify error:1">>)

ffmpeg_check(f) ==
  IF f.ffmpeg THEN Return(TRUE) ELSE Raise(<<"ffmpeg error (see stderr for detail)">>)

\* The first probe of a sequence that raises, or Return(TRUE).
RECURSIVE FirstRaise(_)
FirstRaise(results) ==
  IF results = <<>>
    THEN Return(TRUE)
    ELSE IF Head(results).raised THEN Head(results) ELSE FirstRaise(Tail(results))

(***************************************************************************)
(* check_file, lines 275-320.  zero_detect is the keyword argument, which  *)
(* only gates the zero-run probe; the threshold handed to check_zeros is   *)
(* the global CONFIG.zero_detect (line 299).                               *)
(***************************************************************************)
\* lines 291-292
FileExt(filename, nominate_file_extension) ==
  IF nominate_file_extension # <<>>
    THEN nominate_file_extension
    ELSE get_extension(filename)

\* A faulty CheckProbes: the handler of line 316 drops the message.
CheckProbesNoMessage(filename, file_ext, zero_detect, cfg, f) ==
  LET size == check_size(f)
      file_size == IF size.raised THEN NA ELSE size.value
      probes ==
        <<size>>
        \o (IF zero_detect > 0 THEN <<check_zeros(f, cfg.zero_detect)>> ELSE <<>>)
        \o (IF file_ext \in SetupPilExtensions(cfg)
              THEN <<pil_check(f), magick_check(f), magick_identify_check(f)>>
              ELSE <<>>)
        \o (IF file_ext \in MAGICK_EXTENSIONS
              THEN <<magick_check(f), magick_identify_check(f)>>
              ELSE <<>>)
        \o (IF file_ext \in VIDEO_EXTENSIONS THEN <<ffmpeg_check(f)>> ELSE <<>>)
      e == FirstRaise(probes)
  IN  IF e.raised
        THEN <<FALSE, <<filename, None, file_size>>>>
        ELSE <<TRUE, <<filename, None, file_size>>>>

\* lines 294-320, file_ext being known
CheckProbes(filename, file_ext, zero_detect, cfg, f) ==
  LET size == check_size(f)
      file_size == IF size.raised THEN NA ELSE size.value
      probes ==
        <<size>>
        \o (IF zero_detect > 0 THEN <<check_zeros(f, cfg.zero_detect)>> ELSE <<>>)
        \o (IF file_ext \in SetupPilExtensions(cfg)
              THEN <<pil_check(f), magick_check(f), magick_identify_check(f)>>
              ELSE <<>>)
        \o (IF file_ext \in MAGICK_EXTENSIONS
              THEN <<magick_check(f), magick_identify_check(f)>>
              ELSE <<>>)
        \o (IF file_ext \in VIDEO_EXTENSIONS THEN <<ffmpeg_check(f)>> ELSE <<>>)
      e == FirstRaise(probes)
  IN  IF e.raised
        THEN <<FALSE, <<filename, e.msg, file_size>>>>
        ELSE <<TRUE, <<filename, None, file_size>>>>

check_file(filename, nominate_file_extension, zero_detect, cfg, f) ==
  Bind(FileExt(filename, nominate_file_extension),
       LAMBDA file_ext : CheckProbes(filename, file_ext, zero_detect, cfg, f))

(***************************************************************************)
(* TimedLogger, lines 241-268.  A logger is the record of its three        *)
(* fields; print_log returns the logger after the call and the progress    *)
(* lines it printed.  cur_time is the reading of time.time() at line 254.  *)
(***************************************************************************)
UPDATE_SEC_INTERVAL == 5
UPDATE_MB_INTERVAL == 500
MegaByte == 1024 * 1024

\* lines 242-249: TimedLogger().start() at the time now
TimedLoggerStart(now) ==
  [previous_time |-> now, previous_size |-> 0, start_time |-> now]

\* A faulty PrintLogSkips: the bytes processed do not gate the progress line.
PrintLogSkipsNever(lg, total_file_size, wait_min_processed, force) == FALSE

\* line 252: the call returns before it reads the clock
PrintLogSkips(lg, total_file_size, wait_min_processed, force) ==
  ~force /\ (total_file_size - lg.previous_size) < wait_min_processed * MegaByte

\* lines 251-268.  The speeds of lines 260-268 divide by the time since the
\* start; every reading of the clock is later than the start, and the line
\* is kept as the three numbers it reports.
print_log(lg, num_files, num_bad_files, total_file_size, wait_min_processed, force, cur_time) ==
  IF PrintLogSkips(lg, total_file_size, wait_min_processed, force)
    THEN [logger |-> lg, lines |-> <<>>]
    ELSE LET from_previous_delta == cur_time - lg.previous_time
         IN  IF from_previous_delta > UPDATE_SEC_INTERVAL \/ force
               THEN [logger |-> [lg EXCEPT !.previous_time = cur_time,
                                           !.previous_size = total_file_size],
                     lines |-> << <<"progress", num_bad_files, num_files,
                                    total_file_size>> >>]
               ELSE [logger |-> lg, lines |-> <<>>]

(***************************************************************************)
(* The directory tree and the files the model draws its inputs from.       *)
(***************************************************************************)
\* The k-th directory os.walk yields: the root, then one level deeper each.
RECURSIVE Root(_)
Root(k) == IF k <= 1 THEN <<"r">> ELSE Root(k - 1) \o <<"/", "s">>

\* The file names a directory of the model holds, in the order os.walk
\* lists them: an image, an audio file, a file that is no media file.
NameOrder ==
  << <<"a", ".", "J", "P", "G">>,
     <<"b", ".", "m", "p", "3">>,
     <<"c", ".", "t", "x", "t">> >>

Names == {NameOrder[i] : i \in DOMAIN NameOrder}

\* The tree under check_path, as the sequence of listings os.walk yields for
\* its directories: the first m directories hold all three files, a root
\* without media files stands for m = 0.
Tree(m) ==
  IF m = 0 THEN << <<NameOrder[3]>> >> ELSE [k \in 1..m |-> NameOrder]

AllPaths == {join(Root(k), n) : k \in 1..MaxTasks, n \in Names}

\* What a probe may find behind a path.
GoodFile ==
  [exists |-> TRUE, bytes |-> <<1, 2>>, pil |-> TRUE, magick |-> TRUE,
   identify |-> TRUE, ffmpeg |-> TRUE]

EmptyFile ==
  [exists |-> TRUE, bytes |-> <<>>, pil |-> FALSE, magick |-> FALSE,
   identify |-> FALSE, ffmpeg |-> FALSE]

CorruptFile ==
  [exists |-> TRUE, bytes |-> <<7, 7, 7>>, pil |-> FALSE, magick |-> FALSE,
   identify |-> FALSE, ffmpeg |-> FALSE]

FileConds == {GoodFile, EmptyFile, CorruptFile}

\* The configurations arg_parser() may return (lines 68-112) and the trees
\* the model explores: every number of threads with every number of tasks,
\* recursing, images only and with a CSV file; then, with one worker, every
\* timeout, each of the switches the other way, and the zero-run probe.
Config(threads, timeout) ==
  [threads |-> threads, timeout |-> timeout, zero_detect |-> 0, is_recurse |-> TRUE,
   enable_csv |-> TRUE, is_disable_image |-> FALSE, is_enable_media |-> FALSE,
   is_disable_extra |-> FALSE]

Scenarios ==
  {<<Config(n, MaxTimeout), Tree(m)>> : n \in 0..MaxThreads, m \in 0..MaxTasks}
  \cup {<<Config(1, k), Tree(MaxTasks)>> : k \in 1..MaxTimeout}
  \cup {<<[Config(1, 1) EXCEPT !.is_recurse = FALSE], Tree(MaxTasks)>>,
        <<[Config(1, 1) EXCEPT !.enable_csv = FALSE], Tree(1)>>,
        <<[Config(1, 1) EXCEPT !.is_enable_media = TRUE], Tree(1)>>,
        <<[Config(1, 1) EXCEPT !.zero_detect = 3], Tree(1)>>}

(***************************************************************************)
(* State.                                                                  *)
(***************************************************************************)
VARIABLES
  CONFIG,           \* the parsed arguments, line 351
  tree,             \* the listings os.walk yields under check_path
  pc,               \* where main() is
  exit_code,        \* <<>> while main() runs, <<n>> once it has left with n
  walked,           \* directories os.walk has yielded so far
  task_queue,       \* line 377
  out_queue,        \* line 378
  pre_count,        \* line 379
  started,          \* worker processes started so far, line 404
  j,                \* iterations of the collector loop begun, line 410
  count,            \* line 371
  count_bad,        \* line 372
  total_file_size,  \* line 373
  bad_files_info,   \* line 374
  timed_logger,     \* line 375
  clock,            \* the last reading of time.time(), from the logger's start
  waited,           \* ticks the current out_queue.get() has waited
  stdout,           \* what main() printed
  csv_file,         \* the rows save_csv wrote, one entry per call
  wpc,              \* where each worker is
  wtask,            \* the task a worker holds, <<>> when none
  enqueued,         \* history: the paths put on task_queue, in order
  pulls,            \* history: times each path was taken from task_queue
  published,        \* history: outcomes put on out_queue for each path
  consumed,         \* history: outcomes main() took from out_queue for each path
  received,         \* history: the outcomes main() took, in order
  call              \* the call of one function under examination: arguments, result

vars ==
  <<CONFIG, tree, pc, exit_code, walked, task_queue, out_queue, pre_count, started, j,
    count, count_bad, total_file_size, bad_files_info, timed_logger, clock, waited,
    stdout, csv_file, wpc, wtask, enqueued, pulls, published, consumed, received,
    call>>

mainVars ==
  <<pc, exit_code, walked, pre_count, started, j, count, count_bad, total_file_size,
    bad_files_info, timed_logger, clock, waited, stdout, csv_file, received, consumed>>

Workers == 1..MaxThreads

\* no function is examined on its own
NoCall == [op |-> "none"]

\* The state of main() and of the workers when main() is entered.
Start ==
  /\ pc = "main"
  /\ exit_code = <<>>
  /\ walked = 0
  /\ task_queue = <<>>
  /\ out_queue = <<>>
  /\ pre_count = 0
  /\ started = 0
  /\ j = 0
  /\ count = 0
  /\ count_bad = 0
  /\ total_file_size = 0
  /\ bad_files_info = <<>>
  /\ timed_logger = TimedLoggerStart(0)
  /\ clock = 0
  /\ waited = 0
  /\ stdout = <<>>
  /\ csv_file = <<>>
  /\ wpc = [w \in Workers |-> "none"]
  /\ wtask = [w \in Workers |-> <<>>]
  /\ enqueued = <<>>
  /\ pulls = [p \in AllPaths |-> 0]
  /\ published = [p \in AllPaths |-> 0]
  /\ consumed = [p \in AllPaths |-> 0]
  /\ received = <<>>

Init ==
  /\ \E s \in Scenarios : CONFIG = s[1] /\ tree = s[2]
  /\ call = NoCall
  /\ Start

(***************************************************************************)
(* main(), lines 342-440.                                                  *)
(***************************************************************************)
\* lines 323-325
log_check_outcome(check_outcome_detail) == <<"Bad file:", check_outcome_detail>>

\* lines 357-366: check_path names a file.  check_file is called without
\* zero_detect, which is then its default 0.
MainFile(check_path, f) ==
  /\ pc = "main"
  /\ \E is_success \in {check_file(check_path, <<>>, 0, CONFIG, f)} :
         IF ~is_success[1]
           THEN /\ stdout' = Append(stdout, log_check_outcome(is_success[2]))
                /\ exit_code' = <<1>>
           ELSE /\ stdout' = Append(stdout, <<"File is OK", check_path>>)
                /\ exit_code' = <<0>>
  /\ pc' = "exited"
  /\ UNCHANGED <<CONFIG, tree, call, walked, task_queue, out_queue, pre_count, started, j,
                 count, count_bad, total_file_size, bad_files_info, timed_logger, clock,
                 waited, csv_file, wpc, wtask, enqueued, pulls, published, consumed,
                 received>>

\* lines 370-379: check_path names a directory
MainDir ==
  /\ pc = "main"
  /\ count' = 0
  /\ count_bad' = 0
  /\ total_file_size' = 0
  /\ bad_files_info' = << <<"file_name", "error_message", "file_size[bytes]">> >>
  /\ timed_logger' = TimedLoggerStart(clock)
  /\ task_queue' = <<>>
  /\ out_queue' = <<>>
  /\ pre_count' = 0
  /\ pc' = "walk"
  /\ UNCHANGED <<CONFIG, tree, call, exit_code, walked, started, j, clock, waited, stdout,
                 csv_file, wpc, wtask, enqueued, pulls, published, consumed, received>>

\* Where main() goes when os.walk is exhausted or left by the break.
AfterWalk == IF CONFIG.threads = 0 THEN "for" ELSE "spawn"

\* A faulty WalkDir: pre_count counts every file of the directory, not only
\* the media files that become tasks.
WalkDirCountsAll ==
  /\ pc = "walk"
  /\ walked < Len(tree)
  /\ LET root == Root(walked + 1)
         files == tree[walked + 1]
         media_files == SelectSeq(files, LAMBDA n : is_target_file(n, CONFIG))
         tasks == [i \in DOMAIN media_files |-> join(root, media_files[i])]
     IN  /\ pre_count' = pre_count + Len(files)
         /\ task_queue' = task_queue \o tasks
         /\ enqueued' = enqueued \o tasks
  /\ walked' = walked + 1
  /\ pc' = IF ~CONFIG.is_recurse \/ walked + 1 = Len(tree) THEN AfterWalk ELSE "walk"
  /\ UNCHANGED <<CONFIG, tree, call, exit_code, out_queue, started, j, count, count_bad,
                 total_file_size, bad_files_info, timed_logger, clock, waited, stdout,
                 csv_file, wpc, wtask, pulls, published, consumed, received>>

\* lines 381-402: one iteration of the os.walk loop, on the next directory
\* of the tree.  (The .thumb clean-up of lines 387-393 touches no state of the
\* run: .thumb has no extension and is never a task.)
WalkDir ==
  /\ pc = "walk"
  /\ walked < Len(tree)
  /\ LET root == Root(walked + 1)
         files == tree[walked + 1]
         media_files == SelectSeq(files, LAMBDA n : is_target_file(n, CONFIG))
         tasks == [i \in DOMAIN media_files |-> join(root, media_files[i])]
     IN  /\ pre_count' = pre_count + Len(media_files)
         /\ task_queue' = task_queue \o tasks
         /\ enqueued' = enqueued \o tasks
  /\ walked' = walked + 1
  /\ pc' = IF ~CONFIG.is_recurse \/ walked + 1 = Len(tree) THEN AfterWalk ELSE "walk"
  /\ UNCHANGED <<CONFIG, tree, call, exit_code, out_queue, started, j, count, count_bad,
                 total_file_size, bad_files_info, timed_logger, clock, waited, stdout,
                 csv_file, wpc, wtask, pulls, published, consumed, received>>

\* lines 404-406: one iteration, p.start()
StartWorker ==
  /\ pc = "spawn"
  /\ started < CONFIG.threads
  /\ started' = started + 1
  /\ wpc' = [wpc EXCEPT ![started + 1] = "get"]
  /\ pc' = IF started + 1 = CONFIG.threads THEN "for" ELSE "spawn"
  /\ UNCHANGED <<CONFIG, tree, call, exit_code, walked, task_queue, out_queue, pre_count, j,
                 count, count_bad, total_file_size, bad_files_info, timed_logger, clock,
                 waited, stdout, csv_file, wtask, enqueued, pulls, published, consumed,
                 received>>

\* A faulty ForLoop: the time waited so far counts against the next wait too.
ForLoopKeepsWaited ==
  /\ pc = "for"
  /\ IF j < pre_count
       THEN /\ j' = j + 1
            /\ count' = count + 1
            /\ pc' = "get"
       ELSE /\ pc' = "end"
            /\ UNCHANGED <<j, count>>
  /\ UNCHANGED <<CONFIG, tree, call, exit_code, walked, task_queue, out_queue, pre_count,
                 started, count_bad, total_file_size, bad_files_info, timed_logger,
                 clock, waited, stdout, csv_file, wpc, wtask, enqueued, pulls, published,
                 consumed, received>>

\* lines 410-412: the head of the collector loop and count += 1
ForLoop ==
  /\ pc = "for"
  /\ IF j < pre_count
       THEN /\ j' = j + 1
            /\ count' = count + 1
            /\ waited' = 0
            /\ pc' = "get"
       ELSE /\ pc' = "end"
            /\ UNCHANGED <<j, count, waited>>
  /\ UNCHANGED <<CONFIG, tree, call, exit_code, walked, task_queue, out_queue, pre_count,
                 started, count_bad, total_file_size, bad_files_info, timed_logger,
                 clock, stdout, csv_file, wpc, wtask, enqueued, pulls, published,
                 consumed, received>>

\* One tick of the timeout of out_queue.get(block=True, timeout=CONFIG.timeout)
\* passes with nothing to take.  Where the collector is examined on its own,
\* call counts the ticks of all the waits of the run.
Tick ==
  /\ pc = "get"
  /\ out_queue = <<>>
  /\ waited < CONFIG.timeout
  /\ waited' = waited + 1
  /\ call' = IF call.op = "collect" THEN [call EXCEPT !.elapsed = @ + 1] ELSE call
  /\ UNCHANGED <<CONFIG, tree, pc, exit_code, walked, task_queue, out_queue, pre_count,
                 started, j, count, count_bad, total_file_size, bad_files_info,
                 timed_logger, clock, stdout, csv_file, wpc, wtask, enqueued, pulls,
                 published, consumed, received>>

\* A faulty AddFileSize: only the files found good are added up.
AddFileSizeOfGood(total, is_success) ==
  LET file_size == is_success[2][3]
  IN  IF is_success[1] /\ file_size # NA THEN total + file_size ELSE total

\* lines 415-417: total_file_size after the outcome is_success
AddFileSize(total, is_success) ==
  LET file_size == is_success[2][3]
  IN  IF file_size # NA THEN total + file_size ELSE total

\* A faulty check_outcome_detail: the row is built without the size.
check_outcome_detail_unsized(is_success) ==
  <<is_success[2][1], is_success[2][2], NA>>

\* line 420: the row of bad_files_info built from the outcome is_success
check_outcome_detail(is_success) == is_success[2]

\* lines 414-427: out_queue.get returns an outcome; the rest of the loop body.
\* cur_time is what time.time() returns if print_log reads it.
Collect(cur_time) ==
  /\ pc = "get"
  /\ out_queue # <<>>
  /\ LET is_success == Head(out_queue)
         total == AddFileSize(total_file_size, is_success)
         bad == IF ~is_success[1] THEN count_bad + 1 ELSE count_bad
         logged == print_log(timed_logger, count, bad, total, UPDATE_MB_INTERVAL,
                             FALSE, cur_time)
         reads == ~PrintLogSkips(timed_logger, total, UPDATE_MB_INTERVAL, FALSE)
     IN  /\ IF reads THEN cur_time > clock ELSE cur_time = clock
         /\ out_queue' = Tail(out_queue)
         /\ received' = Append(received, is_success)
         /\ consumed' = [consumed EXCEPT ![is_success[2][1]] = @ + 1]
         /\ total_file_size' = total
         /\ count_bad' = bad
         /\ bad_files_info' = IF ~is_success[1]
                                THEN Append(bad_files_info,
                                            check_outcome_detail(is_success))
                                ELSE bad_files_info
         /\ stdout' = (IF ~is_success[1]
                         THEN Append(stdout,
                                     log_check_outcome(check_outcome_detail(is_success)))
                         ELSE stdout) \o logged.lines
         /\ timed_logger' = logged.logger
         /\ clock' = cur_time
  /\ pc' = "for"
  /\ UNCHANGED <<CONFIG, tree, call, exit_code, walked, task_queue, pre_count, started, j,
                 count, waited, csv_file, wpc, wtask, enqueued, pulls, published>>

\* A faulty CollectTimeout: the wait has no timeout (timeout=None).
CollectNoTimeout ==
  /\ FALSE
  /\ UNCHANGED vars

\* lines 414, 428: the wait of CONFIG.timeout is over and nothing arrived:
\* out_queue.get raises Empty
CollectTimeout ==
  /\ pc = "get"
  /\ out_queue = <<>>
  /\ waited >= CONFIG.timeout
  /\ pc' = "except"
  /\ UNCHANGED <<CONFIG, tree, call, exit_code, walked, task_queue, out_queue, pre_count,
                 started, j, count, count_bad, total_file_size, bad_files_info,
                 timed_logger, clock, waited, stdout, csv_file, wpc, wtask, enqueued,
                 pulls, published, consumed, received>>

\* line 429: the arguments of print are evaluated first; queue.Empty has no
\* attribute message, so e.message raises AttributeError inside the handler,
\* nothing is printed and the exception leaves main().
ExceptEmpty ==
  /\ pc = "except"
  /\ pc' = "crashed"
  /\ exit_code' = <<1>>
  /\ UNCHANGED <<CONFIG, tree, call, walked, task_queue, out_queue, pre_count, started, j,
                 count, count_bad, total_file_size, bad_files_info, timed_logger, clock,
                 waited, stdout, csv_file, wpc, wtask, enqueued, pulls, published,
                 consumed, received>>

\* lines 234-238: the file after save_csv(filename, data)
save_csv(data) == data

\* lines 430-440: the final report.  cur_time is the reading of time.time() in
\* the forced print_log.
FinalReport(cur_time) ==
  /\ pc = "end"
  /\ cur_time > clock
  /\ LET logged == print_log(timed_logger, count, count_bad, total_file_size,
                             UPDATE_MB_INTERVAL, TRUE, cur_time)
         saves == count_bad > 0 /\ CONFIG.enable_csv
     IN  /\ timed_logger' = logged.logger
         /\ csv_file' = IF saves THEN Append(csv_file, save_csv(bad_files_info))
                                 ELSE csv_file
         /\ stdout' = stdout \o << <<"**Task completed**">> >> \o logged.lines
                        \o (IF saves THEN << <<"Save details for bad files">> >>
                                     ELSE <<>>)
                        \o (IF count_bad = 0
                              THEN << <<"The files are OK :-)">> >>
                              ELSE << <<"Few files look damaged :-(">> >>)
  /\ clock' = cur_time
  /\ pc' = "done"
  /\ exit_code' = <<0>>
  /\ UNCHANGED <<CONFIG, tree, call, walked, task_queue, out_queue, pre_count, started, j,
                 count, count_bad, total_file_size, bad_files_info, waited, wpc, wtask,
                 enqueued, pulls, published, consumed, received>>

(***************************************************************************)
(* worker(in_queue, out_queue, CONFIG), lines 328-339.                     *)
(***************************************************************************)
\* A faulty WorkerGet: the task is read and left on the queue.
WorkerGetPeek(w) ==
  /\ wpc[w] = "get"
  /\ task_queue # <<>>
  /\ wtask' = [wtask EXCEPT ![w] = Head(task_queue)]
  /\ pulls' = [pulls EXCEPT ![Head(task_queue)] = @ + 1]
  /\ wpc' = [wpc EXCEPT ![w] = "check"]
  /\ UNCHANGED <<CONFIG, tree, call, task_queue, out_queue, enqueued, published>>
  /\ UNCHANGED mainVars

\* line 331: in_queue.get returns a task
WorkerGet(w) ==
  /\ wpc[w] = "get"
  /\ task_queue # <<>>
  /\ wtask' = [wtask EXCEPT ![w] = Head(task_queue)]
  /\ task_queue' = Tail(task_queue)
  /\ pulls' = [pulls EXCEPT ![Head(task_queue)] = @ + 1]
  /\ wpc' = [wpc EXCEPT ![w] = "check"]
  /\ UNCHANGED <<CONFIG, tree, call, out_queue, enqueued, published>>
  /\ UNCHANGED mainVars

\* A faulty WorkerEmpty: the wait gives up although a task is on the queue.
WorkerEmptyEarly(w) ==
  /\ wpc[w] = "get"
  /\ wpc' = [wpc EXCEPT ![w] = "closed"]
  /\ UNCHANGED <<CONFIG, tree, call, task_queue, out_queue, wtask, enqueued, pulls,
                 published>>
  /\ UNCHANGED mainVars

\* lines 331, 334-336: no task within the 2 seconds: Empty, the worker returns
WorkerEmpty(w) ==
  /\ wpc[w] = "get"
  /\ task_queue = <<>>
  /\ wpc' = [wpc EXCEPT ![w] = "closed"]
  /\ UNCHANGED <<CONFIG, tree, call, task_queue, out_queue, wtask, enqueued, pulls,
                 published>>
  /\ UNCHANGED mainVars

\* A faulty WorkerCheck: the result of check_file is not put on out_queue.
WorkerCheckNoPut(w, f) ==
  /\ wpc[w] = "check"
  /\ wtask' = [wtask EXCEPT ![w] = <<>>]
  /\ wpc' = [wpc EXCEPT ![w] = "get"]
  /\ UNCHANGED <<CONFIG, tree, call, task_queue, out_queue, enqueued, pulls, published>>
  /\ UNCHANGED mainVars

\* lines 332-333: check_file on the task, where the file is found as f, and
\* out_queue.put of its result
WorkerCheck(w, f) ==
  /\ wpc[w] = "check"
  /\ LET full_filename == wtask[w]
         checked == check_file(full_filename, <<>>, CONFIG.zero_detect, CONFIG, f)
     IN  \E is_success \in {checked} :
           /\ out_queue' = Append(out_queue, is_success)
           /\ published' = [published EXCEPT ![full_filename] = @ + 1]
  /\ wtask' = [wtask EXCEPT ![w] = <<>>]
  /\ wpc' = [wpc EXCEPT ![w] = "get"]
  /\ UNCHANGED <<CONFIG, tree, call, task_queue, enqueued, pulls>>
  /\ UNCHANGED mainVars

\* A faulty WorkerFault: the handler puts the task it holds back on the queue.
WorkerFaultRequeues(w) ==
  /\ wpc[w] \in {"get", "check"}
  /\ wpc' = [wpc EXCEPT ![w] = "exit1"]
  /\ task_queue' = IF wtask[w] # <<>> THEN Append(task_queue, wtask[w])
                                      ELSE task_queue
  /\ UNCHANGED <<CONFIG, tree, call, out_queue, wtask, enqueued, pulls, published>>
  /\ UNCHANGED mainVars

\* lines 337-339: an exception other than Empty inside the loop (or the death
\* of the process inside a decoder): the worker exits with status 1.  The task
\* it holds stays with it.
WorkerFault(w) ==
  /\ wpc[w] \in {"get", "check"}
  /\ wpc' = [wpc EXCEPT ![w] = "exit1"]
  /\ UNCHANGED <<CONFIG, tree, call, task_queue, out_queue, wtask, enqueued, pulls,
                 published>>
  /\ UNCHANGED mainVars

\* line 332: a probe of check_file that never returns (an external decoder
\* that hangs); nothing in the program interrupts it.
WorkerHang(w) ==
  /\ wpc[w] = "check"
  /\ wpc' = [wpc EXCEPT ![w] = "hung"]
  /\ UNCHANGED <<CONFIG, tree, call, task_queue, out_queue, wtask, enqueued, pulls,
                 published>>
  /\ UNCHANGED mainVars

(***************************************************************************)
(* The program.                                                            *)
(***************************************************************************)
Readings == (clock + 1)..MaxClock

Main ==
  \/ \E check_path \in Names, f \in FileConds : MainFile(check_path, f)
  \/ MainDir
  \/ WalkDir
  \/ StartWorker
  \/ ForLoop
  \/ Tick
  \/ \E cur_time \in {clock} \cup Readings : Collect(cur_time)
  \/ CollectTimeout
  \/ ExceptEmpty
  \/ \E cur_time \in Readings : FinalReport(cur_time)

Worker(w) ==
  \/ WorkerGet(w)
  \/ WorkerEmpty(w)
  \/ \E f \in FileConds : WorkerCheck(w, f)
  \/ WorkerFault(w)
  \/ WorkerHang(w)

Next == Main \/ \E w \in Workers : Worker(w)

Spec == Init /\ [][Next]_vars

\* The steps of a worker that runs: it takes a task or finds none, and a
\* check_file that returns.
WorkerRuns(w) ==
  \/ WorkerGet(w)
  \/ WorkerEmpty(w)
  \/ \E f \in FileConds : WorkerCheck(w, f)

\* The steps of main() other than the passing of the time of a wait.
MainRuns ==
  \/ \E check_path \in Names, f \in FileConds : MainFile(check_path, f)
  \/ MainDir
  \/ WalkDir
  \/ StartWorker
  \/ ForLoop
  \/ \E cur_time \in {clock} \cup Readings : Collect(cur_time)
  \/ ExceptEmpty
  \/ \E cur_time \in Readings : FinalReport(cur_time)

\* Every process is scheduled: main() goes on while it can, a worker goes on
\* while it can and its check returns.  Nothing forces a wait of main() to
\* time out.
LiveSpec ==
  /\ Init
  /\ [][Next]_vars
  /\ WF_vars(MainRuns)
  /\ \A w \in Workers : WF_vars(WorkerRuns(w))

\* main() is scheduled and its clock advances: a wait on an empty out_queue
\* lasts CONFIG.timeout ticks and then ends.  Nothing is assumed of the
\* workers.
TimedSpec ==
  /\ Init
  /\ [][Next]_vars
  /\ WF_vars(Main)

(***************************************************************************)
(* A TimedLogger on its own: print_log called MaxCalls times in a row on    *)
(* the logger main() starts, with the total growing and the clock          *)
(* advancing between the calls.  call keeps the arguments of the last      *)
(* call, the logger as it was before it, the lines it printed and the      *)
(* history of the emissions as <<time, force>>.                            *)
(***************************************************************************)
\* bytes added to total_file_size between two calls: around the threshold
\* of line 252
LogSizes ==
  {1, UPDATE_MB_INTERVAL * MegaByte - 1, UPDATE_MB_INTERVAL * MegaByte}

\* seconds between two calls: around UPDATE_SEC_INTERVAL
LogDelays == {1, UPDATE_SEC_INTERVAL, UPDATE_SEC_INTERVAL + 1}

LogInit ==
  /\ CONFIG = Config(1, 1)
  /\ tree = Tree(1)
  /\ Start
  /\ call = [op |-> "print_log", calls |-> 0, before |-> timed_logger,
             total_file_size |-> 0, force |-> FALSE, cur_time |-> 0, lines |-> <<>>,
             emissions |-> <<>>]

\* lines 427 and 431: timed_logger.print_log(count, count_bad, total_file_size
\* [, force=True]) at the time cur_time
PrintLogCall(file_size, force, cur_time) ==
  /\ call.op = "print_log"
  /\ call.calls < MaxCalls
  /\ LET total == total_file_size + file_size
         logged == print_log(timed_logger, count + 1, count_bad, total,
                             UPDATE_MB_INTERVAL, force, cur_time)
     IN  /\ total_file_size' = total
         /\ count' = count + 1
         /\ timed_logger' = logged.logger
         /\ clock' = cur_time
         /\ call' = [op |-> "print_log", calls |-> call.calls + 1,
                     before |-> timed_logger, total_file_size |-> total,
                     force |-> force, cur_time |-> cur_time, lines |-> logged.lines,
                     emissions |-> IF logged.lines # <<>>
                                     THEN Append(call.emissions, <<cur_time, force>>)
                                     ELSE call.emissions]
  /\ UNCHANGED <<CONFIG, tree, pc, exit_code, walked, task_queue, out_queue, pre_count,
                 started, j, count_bad, bad_files_info, waited, stdout, csv_file, wpc,
                 wtask, enqueued, pulls, published, consumed, received>>

LogNext ==
  \E file_size \in LogSizes, force \in BOOLEAN, d \in LogDelays :
    PrintLogCall(file_size, force, clock + d)

LoggerSpec == LogInit /\ [][LogNext]_vars

(***************************************************************************)
(* check_file on its own: one call, from main() in single-file mode (line  *)
(* 359) or from a worker (line 332), on a file of any content up to MaxLen *)
(* bytes that the decoders accept or refuse, under a configuration with    *)
(* any zero-run threshold up to MaxZero.  call keeps the arguments and,    *)
(* once the call has returned, its result.                                 *)
(***************************************************************************)
ByteValues == {0, 7}

RECURSIVE Contents(_)
Contents(n) ==
  IF n = 0 THEN {<<>>}
  ELSE Contents(n - 1)
         \cup {Append(b, v) : b \in {c \in Contents(n - 1) : Len(c) = n - 1},
                              v \in ByteValues}

\* the file was removed after the scan
MissingFile ==
  [exists |-> FALSE, bytes |-> <<>>, pil |-> FALSE, magick |-> FALSE,
   identify |-> FALSE, ffmpeg |-> FALSE]

CheckFiles ==
  {MissingFile}
  \cup [exists : {TRUE}, bytes : Contents(MaxLen), pil : BOOLEAN, magick : BOOLEAN,
        identify : BOOLEAN, ffmpeg : BOOLEAN]

\* one name of each list of lines 40-47, and one of none
CheckNames ==
  { <<"a", ".", "J", "P", "G">>, <<"i", ".", "i", "c", "o">>, <<"p", ".", "p", "s", "d">>,
    <<"v", ".", "a", "v", "i">>, <<"b", ".", "m", "p", "3">>, <<"c", ".", "t", "x", "t">> }

CheckConfigs ==
  {[Config(1, 1) EXCEPT !.zero_detect = z, !.is_disable_extra = e] :
     z \in 0..MaxZero, e \in BOOLEAN}

CheckInit ==
  /\ CONFIG \in CheckConfigs
  /\ tree = Tree(1)
  /\ Start
  /\ \E mode \in {"file", "worker"}, filename \in CheckNames, f \in CheckFiles :
       call = [op |-> "check_file", mode |-> mode, filename |-> filename, file |-> f,
               returned |-> FALSE, is_success |-> <<>>]

\* line 359: is_success = check_file(check_path, '', CONFIG.error_detect)
MainCheckFile ==
  /\ call.op = "check_file"
  /\ call.mode = "file"
  /\ ~call.returned
  /\ \E is_success \in {check_file(call.filename, <<>>, 0, CONFIG, call.file)} :
       call' = [call EXCEPT !.returned = TRUE, !.is_success = is_success]
  /\ UNCHANGED <<CONFIG, tree>>
  /\ UNCHANGED mainVars
  /\ UNCHANGED <<task_queue, out_queue, wpc, wtask, enqueued, pulls, published>>

\* line 332: is_success = check_file(full_filename, '', CONFIG.error_detect,
\* zero_detect=CONFIG.zero_detect)
WorkerCheckFile ==
  /\ call.op = "check_file"
  /\ call.mode = "worker"
  /\ ~call.returned
  /\ \E is_success \in {check_file(call.filename, <<>>, CONFIG.zero_detect, CONFIG,
                                    call.file)} :
       call' = [call EXCEPT !.returned = TRUE, !.is_success = is_success]
  /\ UNCHANGED <<CONFIG, tree>>
  /\ UNCHANGED mainVars
  /\ UNCHANGED <<task_queue, out_queue, wpc, wtask, enqueued, pulls, published>>

CheckNext == MainCheckFile \/ WorkerCheckFile

CheckSpec == CheckInit /\ [][CheckNext]_vars

(***************************************************************************)
(* The scan on its own: main() walks a directory that holds one file, of   *)
(* any name of up to MaxName characters, under every choice of the         *)
(* switches that make up MEDIA_EXTENSIONS.                                 *)
(***************************************************************************)
ScanChars == {".", "x", "i", "m", "M"}

RECURSIVE Strings(_)
Strings(n) ==
  IF n = 0 THEN {<<>>}
  ELSE Strings(n - 1)
         \cup {Append(s, c) : s \in {u \in Strings(n - 1) : Len(u) = n - 1},
                              c \in ScanChars}

\* the names a directory listing can hold
ScanNames == Strings(MaxName) \ {<<>>, <<".">>, <<".", ".">>}

ScanConfigs ==
  {[Config(1, 1) EXCEPT !.is_disable_image = i, !.is_enable_media = m,
                        !.is_disable_extra = e] :
     i \in BOOLEAN, m \in BOOLEAN, e \in BOOLEAN}

ScanInit ==
  /\ CONFIG \in ScanConfigs
  /\ \E filename \in ScanNames : tree = << <<filename>> >>
  /\ call = NoCall
  /\ Start

ScanNext == MainDir \/ WalkDir

ScanSpec == ScanInit /\ [][ScanNext]_vars

(***************************************************************************)
(* The collector on its own: a directory run with one worker and MaxTasks  *)
(* tasks, under every timeout, in which call keeps the time main() has     *)
(* waited on out_queue in all.                                             *)
(***************************************************************************)
WaitInit ==
  /\ \E k \in 1..MaxTimeout : CONFIG = Config(1, k)
  /\ tree = Tree(MaxTasks)
  /\ call = [op |-> "collect", elapsed |-> 0]
  /\ Start

WaitSpec == WaitInit /\ [][Next]_vars

(***************************************************************************)
(* Histories read by the properties.                                       *)
(***************************************************************************)
RECURSIVE SumOver(_, _)
SumOver(S, f) ==
  IF S = {} THEN 0
  ELSE LET x == CHOOSE y \in S : TRUE IN f[x] + SumOver(S \ {x}, f)

TotalPublished == SumOver(AllPaths, published)

Enqueued(p) == \E i \in DOMAIN enqueued : enqueued[i] = p

\* main() is in directory mode
DirectoryMode == pc \notin {"main", "exited"}

\* the collector loop has ended
LoopEnded == pc \in {"except", "crashed", "end", "done"}

\* the received outcomes that report a bad file
Failed(is_success) == ~is_success[1]

BadReceived == SelectSeq(received, Failed)

RECURSIVE KnownSizes(_)
KnownSizes(outcomes) ==
  IF outcomes = <<>> THEN 0
  ELSE (IF Head(outcomes)[2][3] # NA THEN Head(outcomes)[2][3] ELSE 0)
         + KnownSizes(Tail(outcomes))

(***************************************************************************)
(* C1.  Between two iterations of the collector loop and after the loop    *)
(* has ended, by exhaustion or by a timeout, count is the number of        *)
(* outcomes main() took from out_queue.  The code adds one to count before *)
(* it waits (line 412), so a wait that times out leaves count one too      *)
(* high.                                                                   *)
(***************************************************************************)
C1_CountIsReceived ==
  pc \in {"for", "except", "crashed", "end", "done"} => count = Len(received)

(***************************************************************************)
(* C2.  A timeout of the collector's wait does not fail the run: main()    *)
(* is never left by an exception.  The handler of line 429 reads           *)
(* e.message, which queue.Empty does not have.                             *)
(***************************************************************************)
C2_TimeoutDoesNotFail == pc # "crashed" /\ (DirectoryMode => exit_code # <<1>>)

(***************************************************************************)
(* C3.  Every enqueued task is taken from task_queue at most once and is   *)
(* held by at most one worker, at most one outcome is published for it,    *)
(* and main() takes each published outcome at most once.                   *)
(***************************************************************************)
C3_AtMostOnce ==
  \A p \in AllPaths :
    /\ pulls[p] <= 1
    /\ pulls[p] = 1 => Enqueued(p)
    /\ published[p] <= pulls[p]
    /\ consumed[p] <= published[p]
    /\ Cardinality({w \in Workers : wtask[w] = p}) <= 1
    /\ Cardinality({i \in DOMAIN out_queue : out_queue[i][2][1] = p})
         = published[p] - consumed[p]

C3_Witness ==
  /\ Len(enqueued) >= 2
  /\ \A i \in DOMAIN enqueued : consumed[enqueued[i]] = 1
  /\ \A w \in 1..2 : wpc[w] = "closed"

(***************************************************************************)
(* C8.  The run is a closed batch: once a worker has been started every    *)
(* task is on record as enqueued and none is enqueued any more, and the    *)
(* collector loop runs for exactly as many outcomes as tasks were          *)
(* enqueued.                                                               *)
(***************************************************************************)
C8_ClosedBatch ==
  /\ [](started > 0 \/ pc \in {"spawn", "for", "get"} \/ LoopEnded
          => pre_count = Len(enqueued) /\ walked >= 1)
  /\ [][started > 0 \/ pc \notin {"main", "walk"}
          => enqueued' = enqueued /\ pre_count' = pre_count]_vars
  /\ [](j <= pre_count /\ (pc \in {"end", "done"} => j = Len(enqueued)))
  /\ [][started' > started
          => pc = "spawn" /\ (started = 0 => task_queue = enqueued)]_vars

C8_Witness ==
  /\ pc = "done"
  /\ started = 2
  /\ walked = 2
  /\ j = 2
  /\ Len(enqueued) = 2

(***************************************************************************)
(* C9.  In directory mode the rows of bad_files_info after the header are  *)
(* the details of the received outcomes that failed, in the order          *)
(* received: there are count_bad of them, count_bad never exceeds count,   *)
(* and each row carries the size of its outcome.                           *)
(***************************************************************************)
C9_FailureReport ==
  DirectoryMode =>
    /\ Len(bad_files_info) - 1 = count_bad
    /\ count_bad = Len(BadReceived)
    /\ count_bad <= count
    /\ bad_files_info[1] = <<"file_name", "error_message", "file_size[bytes]">>
    /\ \A k \in 1..Len(BadReceived) :
         /\ bad_files_info[k + 1][1] = BadReceived[k][2][1]
         /\ bad_files_info[k + 1][3] = BadReceived[k][2][3]

C9_Witness ==
  /\ DirectoryMode
  /\ count_bad = 2
  /\ bad_files_info[2][3] = NA
  /\ bad_files_info[3][3] = 3

(***************************************************************************)
(* C10.  total_file_size is the sum of the sizes of the received outcomes  *)
(* whose size is known; an outcome of unknown size and an outcome not      *)
(* received add nothing.                                                   *)
(***************************************************************************)
C10_TotalBytes == DirectoryMode => total_file_size = KnownSizes(received)

C10_Witness ==
  /\ Len(received) = 1
  /\ received[1][2][3] = NA
  /\ out_queue # <<>>
  /\ Head(out_queue)[2][3] = 3
  /\ total_file_size = 0

(***************************************************************************)
(* C4.  With at least one worker, unless a worker faults, a check never    *)
(* returns or a wait of main() times out, the collector loop ends with     *)
(* one outcome received for every task enqueued and count = pre_count.     *)
(***************************************************************************)
C4_Excused ==
  \/ pc = "exited"
  \/ pc \in {"except", "crashed"}
  \/ \E w \in Workers : wpc[w] \in {"exit1", "hung"}

C4_Complete ==
  /\ pc \in {"end", "done"}
  /\ count = pre_count
  /\ Len(received) = Len(enqueued)
  /\ \A i \in DOMAIN enqueued : consumed[enqueued[i]] = 1

C4_AllCollected == CONFIG.threads >= 1 => <>(C4_Excused \/ C4_Complete)

C4_Witness ==
  /\ C4_Complete
  /\ ~C4_Excused
  /\ Len(enqueued) = 2
  /\ CONFIG.threads = 2

(***************************************************************************)
(* C5.  A worker that exits on an unexpected exception takes nothing with  *)
(* it but the task it holds: the step leaves both queues and every other   *)
(* worker as they are, another worker waiting for a task can still take    *)
(* one, and no outcome is ever published for the task the dead worker      *)
(* holds, so fewer outcomes are published than tasks were enqueued.        *)
(***************************************************************************)
C5_WorkerFault ==
  /\ [](\A w \in Workers :
          wpc[w] = "exit1" /\ wtask[w] # <<>>
            => /\ published[wtask[w]] = 0
               /\ TotalPublished < Len(enqueued))
  /\ [][\A w \in Workers :
          wpc[w] # "exit1" /\ wpc'[w] = "exit1"
            => /\ task_queue' = task_queue
               /\ out_queue' = out_queue
               /\ \A v \in Workers \ {w} : wpc'[v] = wpc[v] /\ wtask'[v] = wtask[v]]_vars
  /\ [](\A w, v \in Workers :
          wpc[w] = "exit1" /\ wpc[v] = "get" /\ task_queue # <<>>
            => ENABLED WorkerGet(v))

C5_Witness ==
  /\ Len(enqueued) = 2
  /\ wpc[1] = "exit1"
  /\ wtask[1] = enqueued[1]
  /\ consumed[enqueued[2]] = 1
  /\ wpc[2] = "closed"
  /\ TotalPublished = 1

(***************************************************************************)
(* C6.  A worker whose check never returns stays as it is for ever and     *)
(* keeps its task; the collector loop of main() ends all the same, each    *)
(* of its waits being over after CONFIG.timeout.                           *)
(***************************************************************************)
C6_HungWorker ==
  /\ [][\A w \in Workers :
          wpc[w] = "hung" => wpc'[w] = "hung" /\ wtask'[w] = wtask[w]]_vars
  /\ ((\E w \in Workers : wpc[w] = "hung") ~> LoopEnded)
  /\ [](pc = "get" => waited <= CONFIG.timeout)

C6_Witness ==
  /\ \E w \in Workers : wpc[w] = "hung"
  /\ pc = "except"
  /\ waited = CONFIG.timeout
  /\ Len(received) < pre_count

(***************************************************************************)
(* C7.  Every worker whose checks return terminates.  A worker returns     *)
(* normally only from a wait on task_queue that found no task: then the    *)
(* queue is empty and the worker holds no task.                            *)
(***************************************************************************)
C7_WorkerTermination ==
  /\ \A w \in Workers :
       wpc[w] \in {"get", "check"} ~> wpc[w] \in {"closed", "exit1", "hung"}
  /\ [](\A w \in Workers : wpc[w] = "closed" => task_queue = <<>> /\ wtask[w] = <<>>)
  /\ [][\A w \in Workers :
          wpc[w] # "closed" /\ wpc'[w] = "closed"
            => wpc[w] = "get" /\ task_queue = <<>>]_vars

C7_Witness ==
  /\ wpc[1] = "closed"
  /\ wpc[2] = "check"
  /\ pulls[enqueued[1]] = 1
  /\ task_queue = <<>>

(***************************************************************************)
(* C11.  With a CSV file configured, a directory run that collected a bad  *)
(* file writes the failure report exactly once, after the collector loop   *)
(* has ended: the header row first, then the rows of the failures in the   *)
(* order main() received them.  A run whose wait timed out is left by the  *)
(* exception of line 429 (C2) before line 435, and writes nothing.         *)
(***************************************************************************)
C11_CsvWrittenOnce ==
  /\ Len(csv_file) <= 1
  /\ csv_file # <<>> => LoopEnded /\ CONFIG.enable_csv
  /\ exit_code # <<>> /\ DirectoryMode /\ CONFIG.enable_csv /\ count_bad > 0
       => /\ Len(csv_file) = 1
          /\ csv_file[1][1] = <<"file_name", "error_message", "file_size[bytes]">>
          /\ Len(csv_file[1]) = Len(BadReceived) + 1
          /\ \A k \in 1..Len(BadReceived) : csv_file[1][k + 1] = BadReceived[k][2]

(***************************************************************************)
(* C12 as stated.  print_log prints a progress line exactly when force is  *)
(* set, or the bytes since the last emission exceed the byte threshold and *)
(* the time since the last emission exceeds the time threshold.  Line 252  *)
(* skips the call only when the bytes are below the threshold, so a call   *)
(* with exactly the threshold prints.                                      *)
(***************************************************************************)
C12_EmitsWhenExceeded ==
  call.op = "print_log" /\ call.calls > 0 =>
    (call.lines # <<>>
       <=> \/ call.force
           \/ /\ call.total_file_size - call.before.previous_size
                    > UPDATE_MB_INTERVAL * MegaByte
              /\ call.cur_time - call.before.previous_time > UPDATE_SEC_INTERVAL)

(***************************************************************************)
(* C12 as amended.  print_log prints a progress line exactly when force is *)
(* set, or the bytes since the last emission are at least the byte         *)
(* threshold and the time since the last emission exceeds the time         *)
(* threshold; an emission sets the last-emission time and bytes to the     *)
(* current ones, a call that prints nothing leaves the logger as it was,   *)
(* and a non-forced emission is more than the time threshold after every   *)
(* earlier emission.                                                       *)
(***************************************************************************)
C12_PrintLog ==
  call.op = "print_log" /\ call.calls > 0 =>
    /\ call.lines # <<>>
         <=> \/ call.force
             \/ /\ call.total_file_size - call.before.previous_size
                      >= UPDATE_MB_INTERVAL * MegaByte
                /\ call.cur_time - call.before.previous_time > UPDATE_SEC_INTERVAL
    /\ call.lines # <<>>
         => /\ timed_logger.previous_time = call.cur_time
            /\ timed_logger.previous_size = call.total_file_size
    /\ call.lines = <<>> => timed_logger = call.before
    /\ \A i, k \in DOMAIN call.emissions :
         i < k /\ ~call.emissions[k][2]
           => call.emissions[k][1] - call.emissions[i][1] > UPDATE_SEC_INTERVAL

C12_Witness ==
  /\ call.op = "print_log"
  /\ Len(call.emissions) = 2
  /\ ~call.emissions[1][2]
  /\ ~call.emissions[2][2]
  /\ call.lines # <<>>
  /\ call.total_file_size - call.before.previous_size = UPDATE_MB_INTERVAL * MegaByte

(***************************************************************************)
(* What the properties of check_file read.                                 *)
(***************************************************************************)
\* bytes[i..k] is a run of one value
IsRun(bytes, i, k) == i <= k /\ \A m \in i..k : bytes[m] = bytes[i]

\* the length of the longest run of one value in bytes
LongestRun(bytes) ==
  IF bytes = <<>> THEN 0
  ELSE CHOOSE n \in 1..Len(bytes) :
         /\ \E i, k \in DOMAIN bytes : IsRun(bytes, i, k) /\ k - i + 1 = n
         /\ \A i, k \in DOMAIN bytes : IsRun(bytes, i, k) => k - i + 1 <= n

\* the call of check_file has returned <<Ok, Detail>>
Returned == call.op = "check_file" /\ call.returned

Ok == call.is_success[1]

Detail == call.is_success[2]

\* the zero_detect argument of the call
ZeroDetectArg == IF call.mode = "worker" THEN CONFIG.zero_detect ELSE 0

\* every probe check_file runs on the file returns
ProbesPass ==
  LET f == call.file
      ext == get_extension(call.filename)
      extra == IF CONFIG.is_disable_extra THEN {} ELSE PIL_EXTRA_EXTENSIONS
  IN  /\ f.exists
      /\ f.bytes # <<>>
      /\ ZeroDetectArg > 0 => LongestRun(f.bytes) < CONFIG.zero_detect
      /\ ext \in PIL_EXTENSIONS \cup extra => f.pil /\ f.magick /\ f.identify
      /\ ext \in MAGICK_EXTENSIONS => f.magick /\ f.identify
      /\ ext \in VIDEO_EXTENSIONS => f.ffmpeg

\* the messages of the probes that raise on the file
RaisedMessages ==
  LET f == call.file
      MsgOf(r) == IF r.raised THEN {r.msg} ELSE {}
  IN  MsgOf(check_size(f)) \cup MsgOf(check_zeros(f, CONFIG.zero_detect))
        \cup MsgOf(pil_check(f)) \cup MsgOf(magick_check(f))
        \cup MsgOf(magick_identify_check(f)) \cup MsgOf(ffmpeg_check(f))

(***************************************************************************)
(* C13.  Every call of check_file returns, and what it returns is a tagged *)
(* outcome for the file it was given: a success with no error exactly when *)
(* every probe it runs returns, otherwise a failure that carries the       *)
(* message of a probe that raised; ok holds exactly when the error is      *)
(* None.                                                                   *)
(***************************************************************************)
C13_CheckFileReturns ==
  /\ call.op = "check_file" /\ ~call.returned => ENABLED CheckNext
  /\ Returned =>
       /\ Ok \in BOOLEAN
       /\ Len(Detail) = 3
       /\ Detail[1] = call.filename
       /\ Ok <=> Detail[2] = None
       /\ Ok <=> ProbesPass
       /\ ~Ok => Detail[2] \in RaisedMessages

C13_Witness ==
  /\ Returned
  /\ ~Ok
  /\ call.file.pil
  /\ call.file.magick
  /\ Detail[2] = <<"Identify error:1">>

(***************************************************************************)
(* C14.  A file of no bytes is reported as a failure with the message of   *)
(* the size probe, from main() and from a worker alike, whatever its       *)
(* extension, whatever the zero-run threshold and whatever the other       *)
(* probes would say.                                                       *)
(***************************************************************************)
C14_ZeroSizeFails ==
  Returned /\ call.file.exists /\ call.file.bytes = <<>>
    => ~Ok /\ Detail[2] = <<"Zero size file">>

C14_Witness ==
  /\ Returned
  /\ call.mode = "worker"
  /\ CONFIG.zero_detect = 1
  /\ call.file.exists
  /\ call.file.bytes = <<>>
  /\ get_extension(call.filename) \in VIDEO_EXTENSIONS
  /\ ~call.file.ffmpeg
  /\ Detail[2] = <<"Zero size file">>

(***************************************************************************)
(* C15.  With a zero-run threshold T > 0 configured, a file that is not    *)
(* empty and holds a run of at least T equal bytes is reported as a        *)
(* failure of the zero-run probe, from a worker and from main() in         *)
(* single-file mode alike.  Line 359 calls check_file without zero_detect, *)
(* so in single-file mode the probe never runs.                            *)
(***************************************************************************)
C15_ZeroRunFails ==
  /\ Returned
  /\ CONFIG.zero_detect > 0
  /\ call.file.exists
  /\ call.file.bytes # <<>>
  /\ LongestRun(call.file.bytes) >= CONFIG.zero_detect
  => /\ ~Ok
     /\ Detail[2][1] = "Equal value sequence, value:"

(***************************************************************************)
(* C16.  The outcome carries the size of the file whenever os.stat         *)
(* succeeds, and NA only when it fails.  check_size raises for an empty    *)
(* file before line 297 assigns file_size, which is then still 'NA'.       *)
(***************************************************************************)
C16_SizeCarried ==
  Returned =>
    Detail[3] = (IF call.file.exists THEN Len(call.file.bytes) ELSE NA)

(***************************************************************************)
(* C17.  A file with an extension of VIDEO_EXTENSIONS or AUDIO_EXTENSIONS  *)
(* on which ffmpeg_check fails is reported as a failure.  Line 310 tests   *)
(* VIDEO_EXTENSIONS only, so an audio file never reaches ffmpeg_check.     *)
(***************************************************************************)
C17_TranscoderProbed ==
  /\ Returned
  /\ get_extension(call.filename) \in VIDEO_EXTENSIONS \cup AUDIO_EXTENSIONS
  /\ ~call.file.ffmpeg
  => ~Ok

(***************************************************************************)
(* C19.  When the zero-run probe fails its message gives the length of the *)
(* longest run of equal bytes and the value of a run of that length.       *)
(* maxprev is only set when a run is followed by another byte (line 190),  *)
(* not after the loop (lines 193-194), so a longest run that ends the file *)
(* is reported with the value of an earlier run, or None.                  *)
(***************************************************************************)
C19_ReportsLongestRun ==
  Returned /\ ~Ok /\ Detail[2][1] = "Equal value sequence, value:" =>
    LET bytes == call.file.bytes
    IN  /\ Detail[2][4] = LongestRun(bytes)
        /\ \E i, k \in DOMAIN bytes :
             /\ IsRun(bytes, i, k)
             /\ k - i + 1 = LongestRun(bytes)
             /\ bytes[i] = Detail[2][2]

(***************************************************************************)
(* What the properties of the scan read.                                   *)
(***************************************************************************)
\* the one file of the directory scanned
Scanned == tree[1][1]

\* the walk is over
WalkEnded == pc \notin {"main", "walk"}

\* d is the place of the last "." of the name
LastDot(name, d) ==
  /\ d \in DOMAIN name
  /\ name[d] = "."
  /\ \A k \in DOMAIN name : k > d => name[k] # "."

\* the lowercase text of the name after the place d
LowerAfter(name, d) == lower(SubSeq(name, d + 1, Len(name)))

(***************************************************************************)
(* C18 as stated.  The scan enqueues a file exactly when its name has a    *)
(* "." and the lowercase text after the last "." is in MEDIA_EXTENSIONS.   *)
(* os.path.splitext finds no extension in a name whose last "." has only   *)
(* dots before it, so ".im" is not enqueued.                               *)
(***************************************************************************)
C18_AfterLastDot ==
  WalkEnded =>
    (enqueued # <<>>
       <=> \E d \in DOMAIN Scanned :
             /\ LastDot(Scanned, d)
             /\ LowerAfter(Scanned, d) \in MEDIA_EXTENSIONS(CONFIG))

(***************************************************************************)
(* C18 as amended.  The scan enqueues a file, under its path, exactly when *)
(* its name has a ".", a character other than "." stands before the last   *)
(* ".", and the lowercase text after the last "." is in MEDIA_EXTENSIONS;  *)
(* it enqueues nothing else.                                               *)
(***************************************************************************)
C18_ScanByExtension ==
  WalkEnded =>
    /\ enqueued \in {<<>>, <<join(Root(1), Scanned)>>}
    /\ task_queue = enqueued
    /\ pre_count = Len(enqueued)
    /\ enqueued # <<>>
         <=> \E d \in DOMAIN Scanned :
               /\ LastDot(Scanned, d)
               /\ \E k \in 1..(d - 1) : Scanned[k] # "."
               /\ LowerAfter(Scanned, d) \in MEDIA_EXTENSIONS(CONFIG)

C18_Witness ==
  /\ WalkEnded
  /\ Scanned = <<"x", ".", "i", "M">>
  /\ enqueued = << <<"r", "/", "x", ".", "i", "M">> >>

(***************************************************************************)
(* C20.  The timeout of the collector runs for each wait on its own: a     *)
(* wait starts with nothing waited, it ends in Empty only when out_queue   *)
(* is empty and this wait alone has lasted CONFIG.timeout, whatever the    *)
(* run has waited before, and an outcome that is there is taken however    *)
(* long the run has lasted.                                                *)
(***************************************************************************)
C20_TimeoutPerWait ==
  /\ [][pc = "for" /\ pc' = "get" => waited' = 0]_vars
  /\ [][pc' = "except" /\ pc # "except"
          => pc = "get" /\ out_queue = <<>> /\ waited = CONFIG.timeout]_vars
  /\ [](pc = "get" /\ ENABLED CollectTimeout
          => out_queue = <<>> /\ waited = CONFIG.timeout)
  /\ [](pc = "get" /\ out_queue # <<>>
          => ENABLED (\E cur_time \in {clock} \cup Readings : Collect(cur_time)))
  /\ [](call.op = "collect" => waited <= call.elapsed)

C20_Witness ==
  /\ call.op = "collect"
  /\ pc = "done"
  /\ Len(received) = pre_count
  /\ pre_count >= 2
  /\ call.elapsed > CONFIG.timeout
  /\ waited = CONFIG.timeout

====
